---- MODULE Spec2Model ----
(***************************************************************************)
(* A model of ComfyUI-DynPromptSimplified: the prompt expander             *)
(* (src/dynprompt/expander.py) and the deep mirror derivation of the node  *)
(* (src/comfy_nodes.py).                                                   *)
(*                                                                         *)
(* Text is modelled by TLA+ strings, handled character by character with   *)
(* Len, SubSeq and \o.  The MD5 digest behind _stable_pick_index is        *)
(* modelled as a random oracle: an arbitrary function of the hashed text,  *)
(* fixed the first time a text is hashed and remembered afterwards.        *)
(***************************************************************************)
EXTENDS Integers, Sequences, FiniteSets, TLC

VARIABLES
    text,            \* DynPromptExpand.expand's text input
    negative,        \* DynPromptExpand.expand's negative input
    seed,            \* PromptExpander.seed
    variety,         \* PromptExpander.variety
    wildcard_dir,    \* PromptExpander.wildcard_dir
    fs,              \* the files on disk: path -> raw lines
    choice_counter,  \* PromptExpander._choice_counter
    wild_counter,    \* PromptExpander._wild_counter
    pc,              \* position of the running call ("idle" between calls)
    call,            \* the running (or last) call: [op, text, phase]
    s,               \* the text being transformed (local s / out)
    round,           \* iterations made by the running loop
    bag,             \* _collect_mirrors_deep's bag
    result,          \* what the last finished call returned
    md5,             \* the digests computed so far: hashed text -> value
    last,            \* the last decision point consumed by the running call
    picks,           \* wildcard decisions of the running call, in order
    trace,           \* counter-consuming decisions of the running call, in order
    posFirst,        \* the first expand_prompt(text, "pos"): result and decisions
    arg,             \* the argument of a helper called on its own
    ret              \* what that helper returned

config == <<text, negative, seed, variety, wildcard_dir, fs>>

counters == <<choice_counter, wild_counter>>

vars == <<text, negative, seed, variety, wildcard_dir, fs, choice_counter,
          wild_counter, pc, call, s, round, bag, result, md5, last, picks,
          trace, posFirst, arg, ret>>

\* The variables of a helper called on its own
helper == <<arg, ret>>

-----------------------------------------------------------------------------
(* Characters and Python's str helpers                                     *)

Ch(str, i) == SubSeq(str, i, i)

Digits == {"0", "1", "2", "3", "4", "5", "6", "7", "8", "9"}

LowerOf == [A |-> "a", B |-> "b", C |-> "c", D |-> "d", E |-> "e", F |-> "f",
            G |-> "g", H |-> "h", I |-> "i", J |-> "j", K |-> "k", L |-> "l",
            M |-> "m", N |-> "n", O |-> "o", P |-> "p", Q |-> "q", R |-> "r",
            S |-> "s", T |-> "t", U |-> "u", V |-> "v", W |-> "w", X |-> "x",
            Y |-> "y", Z |-> "z"]

UpperLetters == DOMAIN LowerOf

LowerLetters == {LowerOf[c] : c \in UpperLetters}

\* [A-Za-z0-9_\-/.]
NameChars == UpperLetters \cup LowerLetters \cup Digits \cup {"_", "-", "/", "."}

\* \s, and what str.strip() removes
Whitespace == {" ", "\t", "\n", "\r"}

RECURSIVE LStripChars(_, _)
LStripChars(str, chars) ==
    IF Len(str) > 0 /\ Ch(str, 1) \in chars
    THEN LStripChars(SubSeq(str, 2, Len(str)), chars)
    ELSE str

RECURSIVE RStripChars(_, _)
RStripChars(str, chars) ==
    IF Len(str) > 0 /\ Ch(str, Len(str)) \in chars
    THEN RStripChars(SubSeq(str, 1, Len(str) - 1), chars)
    ELSE str

StripChars(str, chars) == RStripChars(LStripChars(str, chars), chars)

Strip(str) == StripChars(str, Whitespace)

RECURSIVE Lower(_)
Lower(str) ==
    IF Len(str) = 0 THEN ""
    ELSE LET c == Ch(str, 1)
         IN  (IF c \in UpperLetters THEN LowerOf[c] ELSE c)
             \o Lower(SubSeq(str, 2, Len(str)))

\* str.find(c) as a 1-based index from position i on; 0 when absent
RECURSIVE FindFrom(_, _, _)
FindFrom(str, c, i) ==
    IF i > Len(str) THEN 0
    ELSE IF Ch(str, i) = c THEN i
    ELSE FindFrom(str, c, i + 1)

Contains(str, c) == FindFrom(str, c, 1) # 0

StartsWith(str, prefix) ==
    Len(str) >= Len(prefix) /\ SubSeq(str, 1, Len(prefix)) = prefix

EndsWith(str, suffix) ==
    Len(str) >= Len(suffix)
    /\ SubSeq(str, Len(str) - Len(suffix) + 1, Len(str)) = suffix

\* str.split(sep) for a one-character sep, from position i on
RECURSIVE SplitFrom(_, _, _)
SplitFrom(str, sep, i) ==
    LET j == FindFrom(str, sep, i)
    IN  IF j = 0 THEN <<SubSeq(str, i, Len(str))>>
        ELSE <<SubSeq(str, i, j - 1)>> \o SplitFrom(str, sep, j + 1)

Split(str, sep) == SplitFrom(str, sep, 1)

\* str.replace(a, b) for one-character a
RECURSIVE Replace(_, _, _)
Replace(str, a, b) ==
    IF Len(str) = 0 THEN ""
    ELSE (IF Ch(str, 1) = a THEN b ELSE Ch(str, 1))
         \o Replace(SubSeq(str, 2, Len(str)), a, b)

\* sep.join(parts)
RECURSIVE Join(_, _)
Join(parts, sep) ==
    IF Len(parts) = 0 THEN ""
    ELSE IF Len(parts) = 1 THEN parts[1]
    ELSE parts[1] \o sep \o Join(Tail(parts), sep)

\* str(n) for n >= 0
RECURSIVE IntToStr(_)
IntToStr(n) ==
    LET d == SubSeq("0123456789", (n % 10) + 1, (n % 10) + 1)
    IN  IF n < 10 THEN d ELSE IntToStr(n \div 10) \o d

\* [f(x) for x in seq] with f = str.strip
StripAll(seq) == [k \in 1..Len(seq) |-> Strip(seq[k])]

-----------------------------------------------------------------------------
(* Grammar primitives (expander.py, regexes and helpers)                   *)

\* Index of the first "{" or "}" at or after i; 0 when there is none
RECURSIVE NextBrace(_, _)
NextBrace(str, i) ==
    IF i > Len(str) THEN 0
    ELSE IF Ch(str, i) \in {"{", "}"} THEN i
    ELSE NextBrace(str, i + 1)

\* INNER_BRACE_RE.search(str) from position i on: <<start, end>> (1-based,
\* both inclusive) of the leftmost "{", non-brace characters, "}"; <<0, 0>> if none
RECURSIVE InnerBraceFrom(_, _)
InnerBraceFrom(str, i) ==
    LET b == NextBrace(str, i)
    IN  IF b = 0 THEN <<0, 0>>
        ELSE IF Ch(str, b) = "}" THEN InnerBraceFrom(str, b + 1)
        ELSE LET e == NextBrace(str, b + 1)
             IN  IF e = 0 THEN <<0, 0>>
                 ELSE IF Ch(str, e) = "}" THEN <<b, e>>
                 ELSE InnerBraceFrom(str, e)

INNER_BRACE_RE(str) == InnerBraceFrom(str, 1)

\* Last index r >= i - 1 such that every character of i..r is a name character
RECURSIVE NameRunEnd(_, _)
NameRunEnd(str, i) ==
    IF i <= Len(str) /\ Ch(str, i) \in NameChars THEN NameRunEnd(str, i + 1) ELSE i - 1

\* Largest e in lo..hi with "__" at e-1..e; 0 when there is none
RECURSIVE LastClose(_, _, _)
LastClose(str, lo, hi) ==
    IF hi < lo THEN 0
    ELSE IF SubSeq(str, hi - 1, hi) = "__" THEN hi
    ELSE LastClose(str, lo, hi - 1)

\* WILDCARD_TOKEN_RE.search(str) from position i on: <<start, end>> (1-based,
\* inclusive) of the leftmost match, its greedy group taken as long as it can be;
\* <<0, 0>> if none.  The group is str[start+2 .. end-2].
RECURSIVE WildcardTokenFrom(_, _)
WildcardTokenFrom(str, i) ==
    IF i + 4 > Len(str) THEN <<0, 0>>
    ELSE IF SubSeq(str, i, i + 1) # "__" THEN WildcardTokenFrom(str, i + 1)
    ELSE LET e == LastClose(str, i + 4, NameRunEnd(str, i + 2))
         IN  IF e # 0 THEN <<i, e>> ELSE WildcardTokenFrom(str, i + 1)

WILDCARD_TOKEN_RE(str) == WildcardTokenFrom(str, 1)

_split_choices_keep_empty(str) == StripAll(Split(str, "|"))

\* The loop of _split_top_level_alts from position i on, at nesting depth d,
\* with the current alternative starting at position from
RECURSIVE SplitTopFrom(_, _, _, _)
SplitTopFrom(str, i, d, from) ==
    IF i > Len(str) THEN <<Strip(SubSeq(str, from, Len(str)))>>
    ELSE LET c == Ch(str, i)
         IN  IF c = "|" /\ d = 0
             THEN <<Strip(SubSeq(str, from, i - 1))>> \o SplitTopFrom(str, i + 1, d, i + 1)
             ELSE SplitTopFrom(str, i + 1,
                               IF c = "{" THEN d + 1 ELSE IF c = "}" THEN d - 1 ELSE d,
                               from)

_split_top_level_alts(str) == SplitTopFrom(str, 1, 0, 1)

\* The scan of _flatten_brace_expr for the "}" closing the "{" it starts on;
\* Len(str) + 1 when the scan runs off the end
RECURSIVE MatchingClose(_, _, _)
MatchingClose(str, j, d) ==
    IF j > Len(str) THEN j
    ELSE LET c == Ch(str, j)
             d2 == IF c = "{" THEN d + 1 ELSE IF c = "}" THEN d - 1 ELSE d
         IN  IF c = "}" /\ d2 = 0 THEN j ELSE MatchingClose(str, j + 1, d2)

\* seq1 x seq2 -> every pre + a + p, stripped, a outer and p inner
RECURSIVE CrossAppend(_, _, _)
CrossAppend(pre, alts, posts) ==
    IF Len(alts) = 0 THEN <<>>
    ELSE [k \in 1..Len(posts) |-> Strip(pre \o alts[1] \o posts[k])]
         \o CrossAppend(pre, Tail(alts), posts)

RECURSIVE _flatten_brace_expr(_)
RECURSIVE FlattenAll(_)

\* The leaves of every alternative of alts, concatenated in order
FlattenAll(alts) ==
    IF Len(alts) = 0 THEN <<>>
    ELSE _flatten_brace_expr(alts[1]) \o FlattenAll(Tail(alts))

_flatten_brace_expr(expr) ==
    LET i == FindFrom(expr, "{", 1)
    IN  IF i = 0 THEN <<Strip(expr)>>
        ELSE LET j == MatchingClose(expr, i, 0)
             IN  IF j > Len(expr) THEN <<Strip(expr)>>
                 ELSE LET pre   == SubSeq(expr, 1, i - 1)
                          inner == SubSeq(expr, i + 1, j - 1)
                          post  == SubSeq(expr, j + 1, Len(expr))
                      IN  CrossAppend(pre,
                                      FlattenAll(_split_top_level_alts(inner)),
                                      _flatten_brace_expr(post))

RECURSIVE DedupFrom(_, _, _)
DedupFrom(seq, k, seen) ==
    IF k > Len(seq) THEN <<>>
    ELSE LET key == Lower(Strip(seq[k]))
         IN  IF key \in seen THEN DedupFrom(seq, k + 1, seen)
             ELSE <<Strip(seq[k])>> \o DedupFrom(seq, k + 1, seen \cup {key})

_dedup_preserve(seq) == DedupFrom(seq, 1, {})

-----------------------------------------------------------------------------
(* Wildcard resolver (PromptExpander.read_options_for_token)               *)

\* _normalize_token_to_path's None; like None, the empty string is falsy
NoPath == ""

MirrorSuffix == "-mir"

\* The loop of posixpath.normpath over the components comps[k..], with the
\* components kept so far in new
RECURSIVE NormComps(_, _, _, _)
NormComps(comps, k, new, rooted) ==
    IF k > Len(comps) THEN new
    ELSE LET comp == comps[k]
         IN  IF comp \in {"", "."} THEN NormComps(comps, k + 1, new, rooted)
             ELSE IF comp # ".."
                     \/ (~rooted /\ Len(new) = 0)
                     \/ (Len(new) > 0 /\ new[Len(new)] = "..")
             THEN NormComps(comps, k + 1, Append(new, comp), rooted)
             ELSE IF Len(new) > 0
             THEN NormComps(comps, k + 1, SubSeq(new, 1, Len(new) - 1), rooted)
             ELSE NormComps(comps, k + 1, new, rooted)

\* os.path.normpath (POSIX)
NormPath(path) ==
    IF path = "" THEN "."
    ELSE LET slashes == IF ~StartsWith(path, "/") THEN ""
                        ELSE IF StartsWith(path, "//") /\ ~StartsWith(path, "///")
                        THEN "//" ELSE "/"
             joined  == slashes
                        \o Join(NormComps(Split(path, "/"), 1, <<>>, slashes # ""), "/")
         IN  IF joined = "" THEN "." ELSE joined

\* os.path.join(a, b)
PathJoin(a, b) ==
    IF StartsWith(b, "/") THEN b
    ELSE IF a = "" \/ EndsWith(a, "/") THEN a \o b
    ELSE a \o "/" \o b

\* os.path.isfile
IsFile(path) == path \in DOMAIN fs

\* CandidatePath falling back from "<name>-mir" to "<name>.txt"
CandidatePathWithoutSuffix(token) ==
    LET tok   == LStripChars(Replace(token, "\\", "/"), {"/", "."})
        base  == NormPath(wildcard_dir)
        plain == IF EndsWith(tok, MirrorSuffix)
                 THEN SubSeq(tok, 1, Len(tok) - Len(MirrorSuffix)) ELSE tok
    IN  NormPath(PathJoin(base, plain \o ".txt"))

\* The path _normalize_token_to_path builds and tests, before the isfile test
CandidatePath(token) ==
    LET tok  == LStripChars(Replace(token, "\\", "/"), {"/", "."})
        base == NormPath(wildcard_dir)
    IN  NormPath(PathJoin(base, tok \o ".txt"))

\* _normalize_token_to_path without the test for ".." segments
NormalizeWithoutSegmentTest(token) ==
    IF wildcard_dir = "" THEN NoPath
    ELSE LET base == NormPath(wildcard_dir)
             p    == CandidatePath(token)
         IN  IF ~StartsWith(p, base) THEN NoPath
             ELSE IF IsFile(p) THEN p ELSE NoPath

_normalize_token_to_path(token) ==
    IF wildcard_dir = "" THEN NoPath
    ELSE LET tok  == LStripChars(Replace(token, "\\", "/"), {"/", "."})
             base == NormPath(wildcard_dir)
             p    == CandidatePath(token)
         IN  IF \E k \in 1..Len(Split(tok, "/")) : Split(tok, "/")[k] = ".." THEN NoPath
             ELSE IF ~StartsWith(p, base) THEN NoPath
             ELSE IF IsFile(p) THEN p ELSE NoPath

\* The lines read_options_for_token keeps of a file: stripped, neither blank
\* nor comments
RECURSIVE SurvivingLines(_, _)
SurvivingLines(lines, k) ==
    IF k > Len(lines) THEN <<>>
    ELSE LET t == Strip(lines[k])
         IN  IF t = "" \/ StartsWith(t, "#") THEN SurvivingLines(lines, k + 1)
             ELSE <<t>> \o SurvivingLines(lines, k + 1)

\* re.fullmatch(r"\{(.*)\}", line): "." matches no newline
FullBraceMatch(line) ==
    /\ Len(line) >= 2
    /\ Ch(line, 1) = "{"
    /\ Ch(line, Len(line)) = "}"
    /\ ~Contains(SubSeq(line, 2, Len(line) - 1), "\n")

\* The options read from the file at path for token
OptionsOfFile(token, path) ==
    LET raw == SurvivingLines(fs[path], 1)
    IN  IF Len(raw) = 0 THEN <<>>
        ELSE IF Len(raw) = 1
        THEN LET line == raw[1]
             IN  IF Contains(line, "{") /\ Contains(line, "}")
                 THEN IF EndsWith(token, MirrorSuffix)
                      THEN _dedup_preserve(_flatten_brace_expr(line))
                      ELSE IF FullBraceMatch(line)
                      THEN _split_top_level_alts(SubSeq(line, 2, Len(line) - 1))
                      ELSE <<line>>
                 ELSE <<line>>
        ELSE raw

\* The path read_options_for_token opens for token; NoPath when it opens none
OpenedPath(token) == _normalize_token_to_path(token)

read_options_for_token(token) ==
    LET path == OpenedPath(token)
    IN  IF path = NoPath THEN <<>> ELSE OptionsOfFile(token, path)

-----------------------------------------------------------------------------
(* Deterministic selector (_stable_pick_index and the counter helpers)     *)

\* The digests the model draws from: int(h, 16) ranges over 0 .. HashRange - 1
HashRange == 3

\* f"{seed}:{salt}", the text _stable_pick_index hashes
HashedText(sd, salt) == IntToStr(sd) \o ":" \o salt

\* The values int(md5(msg).hexdigest(), 16) may take: the remembered one if
\* msg was hashed before, any value otherwise
Digests(msg) ==
    IF msg \in DOMAIN md5 THEN {md5[msg]} ELSE 0..(HashRange - 1)

\* md5 after msg was hashed to h and the digest reduced modulo n; a digest
\* reduced modulo 1 decides nothing and is not kept
Remember(msg, h, n) ==
    IF msg \in DOMAIN md5 \/ n <= 1 THEN md5 ELSE md5 @@ (msg :> h)

\* _stable_pick_index reducing modulo n + 1
PickModuloNext(h, n) == IF n <= 0 THEN 0 ELSE h % (n + 1)

\* _stable_pick_index(seed, salt, n) where h is the digest of f"{seed}:{salt}"
_stable_pick_index(h, n) == IF n <= 0 THEN 0 ELSE h % n

\* PromptExpander._salt_extra
_salt_extra == IF variety # 0 THEN ":v" \o IntToStr(variety) ELSE ""

\* The salt of _pick_choice_index at the current counter
ChoiceSalt == "choice#" \o IntToStr(choice_counter) \o _salt_extra

\* WildSalt salted with the text around the token as well
WildSaltWithText(token) ==
    "wild#" \o IntToStr(wild_counter) \o ":" \o token \o ":" \o s \o _salt_extra

\* The salt of _pick_wild_index(token, n) at the current counter
WildSalt(token) == "wild#" \o IntToStr(wild_counter) \o ":" \o token \o _salt_extra

\* The salt _collect_mirrors_deep passes for the match start..end (1-based,
\* inclusive) of token in str; m.span() is 0-based with an exclusive end
MirrorSalt(token, str, start, end) ==
    "wild:" \o token \o ":" \o str \o ":" \o IntToStr(start - 1) \o "-" \o IntToStr(end)

-----------------------------------------------------------------------------
(* Expansion engine (PromptExpander)                                       *)

\* limit of _expand_choices_recursively
ChoiceLimit == 64

\* WildLimit with the loop running once more than its limit
WildLimitOffByOne == 2 * ChoiceLimit + 1

\* limit of _expand_wildcards_recursively
WildLimit == 128

\* No decision point consumed yet by the running call
NoDecision ==
    [kind |-> "none", token |-> "", options |-> <<>>, idx |-> 0, before |-> "",
     path |-> NoPath]

\* What a decision point yielded: its kind, its token, the number of options
\* and the index picked
Decided(d) == [kind |-> d.kind, token |-> d.token, n |-> Len(d.options), idx |-> d.idx]

\* No expand_prompt(text, "pos") has run yet: nothing is known of its pass-1
\* brace decisions and output, its wildcard decisions and its result
NoFirst ==
    [known |-> FALSE, out |-> "", picks |-> <<>>, braces |-> <<>>, pass1 |-> ""]

\* The running call is the first expand_prompt(text, "pos")
FirstRuns ==
    /\ call = [op |-> "expand_prompt", text |-> text, phase |-> "pos"]
    /\ ~posFirst.known

\* s[:start] + core + s[end:] for the match start..end (1-based, inclusive)
Substitute(str, start, end, core) ==
    SubSeq(str, 1, start - 1) \o core \o SubSeq(str, end + 1, Len(str))

\* The group of a WILDCARD_TOKEN_RE match start..end
TokenOf(str, start, end) == SubSeq(str, start + 2, end - 2)

\* DropToken leaving a blank where the token was
BlankToken(str, start, end) == Substitute(str, start, end, " ")

\* s[:start] + "" + s[end:], the text with a token of no options dropped
DropToken(str, start, end) == Substitute(str, start, end, "")

\* [o for i, o in enumerate(options) if i != idx and o.strip()], with idx the
\* 1-based index of the chosen option
RECURSIVE OthersFrom(_, _, _)
OthersFrom(options, idx, k) ==
    IF k > Len(options) THEN <<>>
    ELSE IF k # idx /\ Strip(options[k]) # ""
    THEN <<options[k]>> \o OthersFrom(options, idx, k + 1)
    ELSE OthersFrom(options, idx, k + 1)

\* AllExceptChosen without the o.strip() filter
AllExceptChosenKeepingEmpty(options, idx) ==
    SubSeq(options, 1, idx - 1) \o SubSeq(options, idx + 1, Len(options))

AllExceptChosen(options, idx) == OthersFrom(options, idx, 1)

\* What _expand_wildcards_once puts in place of a token with these options and
\* this chosen index (0-based, as picked)
WildcardCore(options, idx, phase) ==
    LET chosen == IF 0 <= idx /\ idx < Len(options) THEN options[idx + 1] ELSE ""
    IN  IF phase = "pos" THEN chosen
        ELSE Join(AllExceptChosen(options, idx + 1), ", ")

\* The number of characters re.sub(r"\s*,\s*,\s*", ...) matches at position i;
\* 0 when the pattern does not match there
RECURSIVE SpaceRunEnd(_, _)
SpaceRunEnd(str, i) ==
    IF i <= Len(str) /\ Ch(str, i) \in Whitespace THEN SpaceRunEnd(str, i + 1) ELSE i - 1

DoubleCommaEnd(str, i) ==
    LET a == SpaceRunEnd(str, i) + 1
    IN  IF a > Len(str) \/ Ch(str, a) # "," THEN 0
        ELSE LET b == SpaceRunEnd(str, a + 1) + 1
             IN  IF b > Len(str) \/ Ch(str, b) # "," THEN 0
                 ELSE SpaceRunEnd(str, b + 1)

\* re.sub(r"\s*,\s*,\s*", ", ", str) from position i on
RECURSIVE SubDoubleComma(_, _)
SubDoubleComma(str, i) ==
    IF i > Len(str) THEN ""
    ELSE LET e == DoubleCommaEnd(str, i)
         IN  IF e # 0 THEN ", " \o SubDoubleComma(str, e + 1)
             ELSE Ch(str, i) \o SubDoubleComma(str, i + 1)

\* re.sub(r"\s{2,}", " ", str) from position i on
RECURSIVE SubSpaces(_, _)
SubSpaces(str, i) ==
    IF i > Len(str) THEN ""
    ELSE LET e == SpaceRunEnd(str, i)
         IN  IF e >= i + 1 THEN " " \o SubSpaces(str, e + 1)
             ELSE Ch(str, i) \o SubSpaces(str, i + 1)

\* Step 4 of expand_prompt
Cleanup(out) ==
    StripChars(Strip(SubSpaces(SubDoubleComma(out, 1), 1)), {",", " "})

\* _reset_counters with the reset left out
KeepCounters == UNCHANGED <<choice_counter, wild_counter>>

\* PromptExpander._reset_counters
_reset_counters == choice_counter' = 0 /\ wild_counter' = 0

\* The passes that run _expand_choices_recursively
BracePasses == {"pass1", "pass3", "collapse", "mirror_collapse"}

\* expand_prompt(t, phase), up to the start of its first pass.  The locals
\* (s, the loop index, the bag) and the returned value exist during a call
\* only and are blank outside it.
expand_prompt(t, phase) ==
    /\ pc = "idle"
    /\ call' = [op |-> "expand_prompt", text |-> t, phase |-> phase]
    /\ picks' = <<>>
    /\ trace' = <<>>
    /\ last' = NoDecision
    /\ result' = ""
    /\ IF t = ""
       THEN UNCHANGED <<counters, pc, s, round>>
       ELSE /\ _reset_counters
            /\ s' = t
            /\ round' = 0
            /\ pc' = "pass1"
    /\ UNCHANGED <<config, helper, bag, md5, posFirst>>

\* collapse_choices(t), up to the start of its loop
collapse_choices(t) ==
    /\ pc = "idle"
    /\ call' = [op |-> "collapse_choices", text |-> t, phase |-> ""]
    /\ picks' = <<>>
    /\ trace' = <<>>
    /\ last' = NoDecision
    /\ _reset_counters
    /\ s' = t
    /\ round' = 0
    /\ pc' = "collapse"
    /\ result' = ""
    /\ UNCHANGED <<config, helper, bag, md5, posFirst>>

\* _collect_mirrors_deep(t, expander), up to the start of the loop of the
\* collapse_choices it calls first
_collect_mirrors_deep(t) ==
    /\ pc = "idle"
    /\ call' = [op |-> "_collect_mirrors_deep", text |-> t, phase |-> ""]
    /\ picks' = <<>>
    /\ trace' = <<>>
    /\ last' = NoDecision
    /\ _reset_counters
    /\ s' = t
    /\ round' = 0
    /\ bag' = <<>>
    /\ pc' = "mirror_collapse"
    /\ result' = ""
    /\ UNCHANGED <<config, helper, md5, posFirst>>

\* _expand_choices_once taking the next counter value only for a block that
\* offers a choice
ChoicesOnceCountingChoicesOnly ==
    LET m       == INNER_BRACE_RE(s)
        options == _split_choices_keep_empty(SubSeq(s, m[1] + 1, m[2] - 1))
        hashed  == HashedText(seed, ChoiceSalt)
    IN  \E h \in Digests(hashed) :
            LET idx == _stable_pick_index(h, Len(options))
            IN  /\ md5' = Remember(hashed, h, Len(options))
                /\ choice_counter' = IF Len(options) > 1 THEN choice_counter + 1
                                     ELSE choice_counter
                /\ last' = [kind |-> "choice", token |-> "", options |-> options,
                            idx |-> idx, before |-> s, path |-> NoPath]
                /\ s' = Substitute(s, m[1], m[2], options[idx + 1])
                /\ pc' = pc

\* _expand_choices_once(s) when INNER_BRACE_RE matches; options[idx] raises
\* IndexError for an index past the options, which ends the call
_expand_choices_once ==
    LET m       == INNER_BRACE_RE(s)
        options == _split_choices_keep_empty(SubSeq(s, m[1] + 1, m[2] - 1))
        hashed  == HashedText(seed, ChoiceSalt)
    IN  \E h \in Digests(hashed) :
            LET idx == _stable_pick_index(h, Len(options))
            IN  /\ md5' = Remember(hashed, h, Len(options))
                /\ choice_counter' = choice_counter + 1
                /\ last' = [kind |-> "choice", token |-> "", options |-> options,
                            idx |-> idx, before |-> s, path |-> NoPath]
                /\ IF idx < Len(options)
                   THEN /\ s' = Substitute(s, m[1], m[2], options[idx + 1])
                        /\ pc' = pc
                   ELSE /\ s' = s
                        /\ pc' = "IndexError"

\* One iteration of the loop of _expand_choices_recursively
ChoicesRound ==
    /\ pc \in BracePasses
    /\ round < ChoiceLimit
    /\ INNER_BRACE_RE(s) # <<0, 0>>
    /\ _expand_choices_once
    /\ round' = round + 1
    /\ trace' = Append(trace, Decided(last'))
    /\ posFirst' = IF pc = "pass1" /\ FirstRuns
                   THEN [posFirst EXCEPT !.braces = Append(@, last')]
                   ELSE posFirst
    /\ UNCHANGED <<config, helper, wild_counter, call, bag, result, picks>>

\* Where a brace pass continues once its loop is over
AfterBraces(pass) ==
    CASE pass = "pass1" -> "pass2"
      [] pass = "pass3" -> "cleanup"
      [] pass = "collapse" -> "idle"
      [] pass = "mirror_collapse" -> "mirror_walk"

\* The loop of _expand_choices_recursively ends: the limit is reached or no
\* block is left
ChoicesDone ==
    /\ pc \in BracePasses
    /\ ~(round < ChoiceLimit /\ INNER_BRACE_RE(s) # <<0, 0>>)
    /\ pc' = AfterBraces(pc)
    /\ round' = 0
    /\ result' = IF pc = "collapse" THEN s ELSE result
    /\ s' = IF pc = "collapse" THEN "" ELSE s
    /\ posFirst' = IF pc = "pass1" /\ FirstRuns
                   THEN [posFirst EXCEPT !.pass1 = s]
                   ELSE posFirst
    /\ UNCHANGED <<config, helper, counters, call, bag, md5, last, picks, trace>>

\* _expand_wildcards_once(s, phase) when WILDCARD_TOKEN_RE matches
_expand_wildcards_once(phase) ==
    LET m       == WILDCARD_TOKEN_RE(s)
        token   == TokenOf(s, m[1], m[2])
        options == read_options_for_token(token)
        hashed  == HashedText(seed, WildSalt(token))
    IN  IF Len(options) = 0
        THEN /\ s' = DropToken(s, m[1], m[2])
             /\ last' = [kind |-> "drop", token |-> token, options |-> options,
                         idx |-> 0, before |-> s, path |-> OpenedPath(token)]
             /\ UNCHANGED <<md5, wild_counter, picks>>
        ELSE \E h \in Digests(hashed) :
                 LET idx == _stable_pick_index(h, Len(options))
                 IN  /\ md5' = Remember(hashed, h, Len(options))
                     /\ wild_counter' = wild_counter + 1
                     /\ s' = Substitute(s, m[1], m[2], WildcardCore(options, idx, phase))
                     /\ last' = [kind |-> "wild", token |-> token, options |-> options,
                                 idx |-> idx, before |-> s, path |-> OpenedPath(token)]
                     /\ picks' = Append(picks, [token |-> token, n |-> Len(options),
                                                idx |-> idx])

\* One iteration of the loop of _expand_wildcards_recursively
WildcardsRound ==
    /\ pc = "pass2"
    /\ round < WildLimit
    /\ WILDCARD_TOKEN_RE(s) # <<0, 0>>
    /\ _expand_wildcards_once(call.phase)
    /\ round' = round + 1
    /\ trace' = IF last'.kind = "wild" THEN Append(trace, Decided(last')) ELSE trace
    /\ UNCHANGED <<config, helper, choice_counter, pc, call, bag, result, posFirst>>

\* WildcardsDone with the brace counter reset before pass 3
WildcardsDoneResetting ==
    /\ pc = "pass2"
    /\ ~(round < WildLimit /\ WILDCARD_TOKEN_RE(s) # <<0, 0>>)
    /\ pc' = "pass3"
    /\ round' = 0
    /\ choice_counter' = 0
    /\ UNCHANGED <<config, helper, wild_counter, call, s, bag, result, md5, last, picks,
                   trace, posFirst>>

\* The loop of _expand_wildcards_recursively ends
WildcardsDone ==
    /\ pc = "pass2"
    /\ ~(round < WildLimit /\ WILDCARD_TOKEN_RE(s) # <<0, 0>>)
    /\ pc' = "pass3"
    /\ round' = 0
    /\ UNCHANGED <<config, helper, counters, call, s, bag, result, md5, last, picks,
                   trace, posFirst>>

\* Step 4 of expand_prompt and its return
CleanupAndReturn ==
    /\ pc = "cleanup"
    /\ result' = Cleanup(s)
    /\ pc' = "idle"
    /\ posFirst' = IF FirstRuns
                   THEN [posFirst EXCEPT !.known = TRUE, !.out = Cleanup(s),
                                         !.picks = picks]
                   ELSE posFirst
    /\ s' = ""
    /\ UNCHANGED <<config, helper, counters, call, round, bag, md5, last, picks, trace>>

-----------------------------------------------------------------------------
(* Mirror derivation (comfy_nodes._collect_mirrors_deep)                   *)

\* The walk of _collect_mirrors_deep has no limit of its own; the model
\* follows it for this many iterations
MirrorRoundCap == 129

\* One iteration of the while loop of _collect_mirrors_deep with a token found
MirrorRound ==
    /\ pc = "mirror_walk"
    /\ round < MirrorRoundCap
    /\ WILDCARD_TOKEN_RE(s) # <<0, 0>>
    /\ LET m      == WILDCARD_TOKEN_RE(s)
           token  == TokenOf(s, m[1], m[2])
           opts   == read_options_for_token(token)
           hashed == HashedText(seed, MirrorSalt(token, s, m[1], m[2]))
       IN  IF Len(opts) = 0
           THEN /\ s' = Substitute(s, m[1], m[2], "")
                /\ last' = [kind |-> "drop", token |-> token, options |-> opts,
                            idx |-> 0, before |-> s, path |-> OpenedPath(token)]
                /\ UNCHANGED <<md5, bag, picks>>
           ELSE \E h \in Digests(hashed) :
                       LET idx    == _stable_pick_index(h, Len(opts))
                           chosen == IF 0 <= idx /\ idx < Len(opts) THEN opts[idx + 1] ELSE ""
                       IN  /\ md5' = Remember(hashed, h, Len(opts))
                           /\ bag' = IF EndsWith(token, MirrorSuffix)
                                     THEN bag \o AllExceptChosen(opts, idx + 1)
                                     ELSE bag
                           /\ s' = Substitute(s, m[1], m[2], chosen)
                           /\ last' = [kind |-> "mirror", token |-> token,
                                       options |-> opts, idx |-> idx, before |-> s,
                                       path |-> OpenedPath(token)]
                           /\ picks' = Append(picks, [token |-> token, n |-> Len(opts),
                                                      idx |-> idx])
    /\ round' = round + 1
    /\ UNCHANGED <<config, helper, counters, pc, call, result, trace, posFirst>>

\* The while loop of _collect_mirrors_deep finds no token and the bag is returned
MirrorDone ==
    /\ pc = "mirror_walk"
    /\ WILDCARD_TOKEN_RE(s) = <<0, 0>>
    /\ result' = Join(bag, ", ")
    /\ pc' = "idle"
    /\ s' = ""
    /\ round' = 0
    /\ bag' = <<>>
    /\ UNCHANGED <<config, helper, counters, call, md5, last, picks, trace, posFirst>>

-----------------------------------------------------------------------------
(* The wildcard corpus and the node's inputs                               *)

\* The wildcard folder of the node, and the files under and beside it
WildcardRoot == "/w"

Corpus ==
    [p \in {"/w/hair.txt", "/w/mood-mir.txt", "/w/c-mir.txt", "/w/loop.txt",
            "/w/nest.txt", "/w/top.txt", "/w/empty.txt", "/w/secrets.txt",
            "/w/one.txt", "/secrets.txt", "/b.txt"} |->
        CASE p = "/w/hair.txt"     -> <<"short", "", "# styles", " long ">>
          [] p = "/w/mood-mir.txt" -> <<"{a|{|c}}">>
          [] p = "/w/c-mir.txt"    -> <<"a", "a", "b">>
          [] p = "/w/loop.txt"     -> <<"__loop__">>
          [] p = "/w/nest.txt"     -> <<"__hair__ {p|q}">>
          [] p = "/w/top.txt"      -> <<"{a|{b|c}}">>
          [] p = "/w/empty.txt"    -> <<"# nothing", "  ">>
          [] p = "/w/secrets.txt"  -> <<"top">>
          [] p = "/w/one.txt"      -> <<"solo">>
          [] p = "/secrets.txt"    -> <<"outside">>
          [] p = "/b.txt"          -> <<"outside">>]

\* str * n
RECURSIVE Repeated(_, _)
Repeated(str, n) == IF n = 0 THEN "" ELSE str \o Repeated(str, n - 1)

\* A prompt of one more block than pass 1 and pass 3 collapse together, and a
\* token after the blocks
ManyBlocks == Repeated("{}", 2 * ChoiceLimit + 1) \o "__one__"

\* Positive prompts
Templates ==
    {"", "{only}", "__missing__", "__mood-mir__", "__hair__", "{a|b} __nest__",
     "__loop__", "__c-mir__", "x__empty__y", "{a|{b|}}", "__one__", "__a/../b__",
     ManyBlocks}

\* Negative prompts
Negatives == {"{dull}"}

MaxSeed == 1

MaxVariety == 1

Init ==
    /\ text \in Templates
    /\ negative \in Negatives
    /\ seed \in 0..MaxSeed
    /\ variety \in 0..MaxVariety
    /\ wildcard_dir \in {"", WildcardRoot}
    /\ fs = Corpus
    /\ choice_counter = 0
    /\ wild_counter = 0
    /\ pc = "idle"
    /\ call = [op |-> "", text |-> "", phase |-> ""]
    /\ s = ""
    /\ round = 0
    /\ bag = <<>>
    /\ result = ""
    /\ md5 = <<>>
    /\ last = NoDecision
    /\ picks = <<>>
    /\ trace = <<>>
    /\ posFirst = NoFirst
    /\ arg = ""
    /\ ret = ""

Next ==
    \/ \E phase \in {"pos", "neg"} : expand_prompt(text, phase)
    \/ expand_prompt(negative, "pos")
    \/ collapse_choices(text)
    \/ _collect_mirrors_deep(text)
    \/ ChoicesRound
    \/ ChoicesDone
    \/ WildcardsRound
    \/ WildcardsDone
    \/ CleanupAndReturn
    \/ MirrorRound
    \/ MirrorDone

Spec == Init /\ [][Next]_vars

-----------------------------------------------------------------------------
(* The helpers called on their own, on inputs drawn from bounded sets      *)

\* The state of the expander and of the node around a helper called on its own
Unused ==
    /\ text = ""
    /\ negative = ""
    /\ seed = 0
    /\ variety = 0
    /\ choice_counter = 0
    /\ wild_counter = 0
    /\ call = [op |-> "", text |-> "", phase |-> ""]
    /\ s = ""
    /\ round = 0
    /\ bag = <<>>
    /\ result = ""
    /\ md5 = <<>>
    /\ last = NoDecision
    /\ picks = <<>>
    /\ trace = <<>>
    /\ posFirst = NoFirst

\* The strings over alphabet of at most n characters
RECURSIVE StringsUpTo(_, _)
StringsUpTo(alphabet, n) ==
    IF n = 0 THEN {""}
    ELSE LET shorter == StringsUpTo(alphabet, n - 1)
         IN  shorter \cup {x \o c : x \in shorter, c \in alphabet}

\* Step 4 of expand_prompt, applied to text a template can leave behind
CleanupAlphabet == {"a", ",", " "}

MaxCleanupLen == 5

InitCleanup ==
    /\ Unused
    /\ wildcard_dir = ""
    /\ fs = <<>>
    /\ pc = "helper"
    /\ arg \in StringsUpTo(CleanupAlphabet, MaxCleanupLen)
    /\ ret = ""

\* The cleanup step applied to arg
CleanupOnce ==
    /\ pc = "helper"
    /\ ret' = Cleanup(arg)
    /\ pc' = "cleaned"
    /\ UNCHANGED <<config, counters, call, s, round, bag, result, md5, last, picks,
                   trace, posFirst, arg>>

\* The cleanup step applied to its own output
CleanupAgain ==
    /\ pc = "cleaned"
    /\ arg' = ret
    /\ ret' = Cleanup(ret)
    /\ pc' = "recleaned"
    /\ UNCHANGED <<config, counters, call, s, round, bag, result, md5, last, picks,
                   trace, posFirst>>

NextCleanup == CleanupOnce \/ CleanupAgain

SpecCleanup == InitCleanup /\ [][NextCleanup]_vars

\* The files a wildcard folder and its parent may hold
ResolverFiles ==
    [p \in {"/w/x.txt", "/w/x-mir.txt", "/w/secrets.txt", "/w/sub/x.txt",
            "/secrets.txt", "/b.txt", "/w2/x.txt"} |->
        CASE p = "/w/x.txt"       -> <<"plain", "other">>
          [] p = "/w/x-mir.txt"   -> <<"{a|{b|c}}">>
          [] p = "/w/secrets.txt" -> <<"top">>
          [] p = "/w/sub/x.txt"   -> <<"{a|{b|c}}">>
          [] p = "/secrets.txt"   -> <<"outside">>
          [] p = "/b.txt"         -> <<"outside">>
          [] p = "/w2/x.txt"      -> <<"beside">>]

\* f restricted to the paths of d
Restrict(f, d) == [p \in d |-> f[p]]

\* Token names WILDCARD_TOKEN_RE can match, and two it cannot
Tokens ==
    {"x", "x-mir", "../secrets", "a/../../b", "secrets", "./x", "/x", "sub/x",
     "sub//x", "sub/./x", "..", "missing", "x\\y", "sub\\x", "a/../../w2/x"}

InitResolve ==
    /\ Unused
    /\ wildcard_dir \in {"", WildcardRoot, "/w/", "/w/sub/.."}
    /\ fs \in {Restrict(ResolverFiles, d) : d \in SUBSET DOMAIN ResolverFiles}
    /\ pc = "helper"
    /\ arg \in Tokens
    /\ ret = <<>>

\* read_options_for_token(arg) called on its own
ReadOptions ==
    /\ pc = "helper"
    /\ ret' = read_options_for_token(arg)
    /\ last' = [kind |-> "read", token |-> arg, options |-> read_options_for_token(arg),
                idx |-> 0, before |-> "", path |-> OpenedPath(arg)]
    /\ pc' = "read"
    /\ UNCHANGED <<config, counters, call, s, round, bag, result, md5, picks, trace,
                   posFirst, arg>>

NextResolve == ReadOptions

SpecResolve == InitResolve /\ [][NextResolve]_vars

\* Two grammar items each: what the prompts of one comparison all contain
ItemPairs ==
    {<<"{a|b}", "__nest__">>, <<"__c-mir__", "{a|{b|}}">>, <<"__missing__", "__hair__">>}

\* Literal text before the items, between them and after them
LiteralLayouts ==
    {<<"x, ", " ", "">>, <<"", " and ", "">>, <<"", " ", " y">>, <<"x", ", ", "y">>}

\* The prompt of the two items with this literal text around them
Layout(items, before, between, after) ==
    before \o items[1] \o between \o items[2] \o after

\* No decisions kept yet
NoneKept == [known |-> FALSE, phase |-> "", trace |-> <<>>]

\* text is the plainest layout of two items and arg any layout of the same two
InitLiteral ==
    /\ \E items \in ItemPairs, around \in LiteralLayouts :
           /\ text = Layout(items, "", " ", "")
           /\ arg = Layout(items, around[1], around[2], around[3])
    /\ negative = ""
    /\ seed = MaxSeed
    /\ variety \in {0, MaxVariety}
    /\ wildcard_dir = WildcardRoot
    /\ fs = Corpus
    /\ choice_counter = 0
    /\ wild_counter = 0
    /\ pc = "idle"
    /\ call = [op |-> "", text |-> "", phase |-> ""]
    /\ s = ""
    /\ round = 0
    /\ bag = <<>>
    /\ result = ""
    /\ md5 = <<>>
    /\ last = NoDecision
    /\ picks = <<>>
    /\ trace = <<>>
    /\ posFirst = NoFirst
    /\ ret = NoneKept

\* The caller keeps the decisions of the expand_prompt(text, phase) that just
\* returned, to compare those of expand_prompt(arg, phase) with
KeepDecisions ==
    /\ pc = "idle"
    /\ call.op = "expand_prompt"
    /\ call.text = text
    /\ ~ret.known
    /\ ret' = [known |-> TRUE, phase |-> call.phase, trace |-> trace]
    /\ UNCHANGED <<config, counters, pc, call, s, round, bag, result, md5, last, picks,
                   trace, posFirst, arg>>

NextLiteral ==
    \/ \E phase \in {"pos", "neg"} : expand_prompt(text, phase)
    \/ \E phase \in {"pos", "neg"} : expand_prompt(arg, phase)
    \/ ChoicesRound
    \/ ChoicesDone
    \/ WildcardsRound
    \/ WildcardsDone
    \/ CleanupAndReturn
    \/ KeepDecisions

SpecLiteral == InitLiteral /\ [][NextLiteral]_vars

\* The characters of brace syntax, a letter and a blank
BraceAlphabet == {"{", "}", "|", "a", " "}

MaxLineLen == 5

\* The single lines a wildcard file may hold: the short ones, and one of two
\* blocks with text between them
Lines ==
    {l \in StringsUpTo(BraceAlphabet \ {" "}, MaxLineLen) : l # ""}
        \cup {"{a|b} and {c|d}", "{a|{b|c}}"}

\* The wildcard folder holds x.txt, a file of one line
InitSplit ==
    /\ Unused
    /\ wildcard_dir = WildcardRoot
    /\ \E l \in Lines : fs = ("/w/x.txt" :> <<l>>)
    /\ pc = "helper"
    /\ arg = "x"
    /\ ret = <<>>

NextSplit == ReadOptions

SpecSplit == InitSplit /\ [][NextSplit]_vars

\* The nesting depth after str[i..], from depth d; -1 once a "}" closes nothing
RECURSIVE DepthFrom(_, _, _)
DepthFrom(str, i, d) ==
    IF d < 0 THEN -1
    ELSE IF i > Len(str) THEN d
    ELSE DepthFrom(str, i + 1,
                   IF Ch(str, i) = "{" THEN d + 1
                   ELSE IF Ch(str, i) = "}" THEN d - 1 ELSE d)

\* Every "{" of str has its "}" later on and every "}" its "{" before
Balanced(str) == DepthFrom(str, 1, 0) = 0

\* The balanced brace expressions of at most MaxLineLen characters
Expressions == {e \in StringsUpTo(BraceAlphabet, MaxLineLen) : Balanced(e)}

\* An expander without wildcard folder and one expression, not flattened yet
InitFlatten ==
    /\ Unused
    /\ wildcard_dir = ""
    /\ fs = <<>>
    /\ pc = "idle"
    /\ arg \in Expressions
    /\ ret = <<>>

\* _flatten_brace_expr(arg) called on its own
FlattenExpr ==
    /\ pc = "idle"
    /\ ret = <<>>
    /\ ret' = _flatten_brace_expr(arg)
    /\ UNCHANGED <<config, counters, pc, call, s, round, bag, result, md5, last, picks,
                   trace, posFirst, arg>>

NextFlatten ==
    \/ FlattenExpr
    \/ collapse_choices(arg)
    \/ ChoicesRound
    \/ ChoicesDone

SpecFlatten == InitFlatten /\ [][NextFlatten]_vars

-----------------------------------------------------------------------------
(* Properties                                                              *)

\* The running or last call is op on the node's text
CallIs(op, phase) == call = [op |-> op, text |-> text, phase |-> phase]

\* C1: twin-pass replay is exact: at its k-th wildcard decision the mirror
\* derivation of the text picks the index that expand_prompt(text, "pos") picks
\* at its k-th wildcard decision.
TwinPassReplayExact ==
    (pc = "idle" /\ CallIs("_collect_mirrors_deep", "") /\ posFirst.known)
        => \A k \in DOMAIN picks \cap DOMAIN posFirst.picks :
               picks[k].idx = posFirst.picks[k].idx

\* The options o of options with o != options[idx] and trim(o) != "", in order
RECURSIVE ValueComplementFrom(_, _, _)
ValueComplementFrom(options, idx, k) ==
    IF k > Len(options) THEN <<>>
    ELSE (IF options[k] # options[idx] /\ Strip(options[k]) # ""
          THEN <<options[k]>> ELSE <<>>)
         \o ValueComplementFrom(options, idx, k + 1)

\* What the decisions ds[k..] of a mirror walk put in the bag if each "-mir"
\* token contributes the complement by value of its chosen option
RECURSIVE BagByValue(_, _)
BagByValue(ds, k) ==
    IF k > Len(ds) THEN <<>>
    ELSE (IF EndsWith(ds[k].token, MirrorSuffix)
          THEN ValueComplementFrom(read_options_for_token(ds[k].token), ds[k].idx + 1, 1)
          ELSE <<>>)
         \o BagByValue(ds, k + 1)

\* C2: mirror complement correctness: each "-mir" token the mirror derivation
\* processes, with options O and chosen index i, appends to the bag exactly the
\* options o of O with o != O[i] and trim(o) != "", and other tokens append nothing.
MirrorComplementByValue ==
    pc = "mirror_walk" => bag = BagByValue(picks, 1)

\* C10: the mirror derivation terminates: its wildcard walk stops within the
\* number of rounds that bounds the wildcard pass of expand_prompt.
MirrorWalkBounded ==
    pc = "mirror_walk" => round <= WildLimit

\* C3: determinism: expand_prompt(text, "pos") returns the same string on every
\* call, whatever calls the instance served before; a call about to return holds
\* the first call's result and has made the first call's decisions.
ExpandPromptDeterministic ==
    /\ (pc = "idle" /\ CallIs("expand_prompt", "pos") /\ posFirst.known)
           => result = posFirst.out
    /\ (pc = "cleanup" /\ CallIs("expand_prompt", "pos") /\ posFirst.known)
           => Cleanup(s) = posFirst.out /\ picks = posFirst.picks

\* A second expand_prompt(text, "pos") is about to return the first one's result,
\* a mirror derivation having run on the instance before
SecondExpansionAgrees ==
    /\ pc = "cleanup"
    /\ CallIs("expand_prompt", "pos")
    /\ posFirst.known
    /\ text = "__hair__"
    /\ Cardinality(DOMAIN md5) = 2
    /\ Len(picks) = 1
    /\ Cleanup(s) = posFirst.out

\* C4: path-escape rejection: read_options_for_token("../secrets") and
\* read_options_for_token("a/../../b") return the empty list and open no file,
\* whatever the wildcard folder and the files on disk.
PathEscapeRejected ==
    (pc = "read" /\ arg \in {"../secrets", "a/../../b"})
        => ret = <<>> /\ last.path = NoPath

\* The file <name>.txt directly under the wildcard folder
FileUnderRoot(name) == NormPath(wildcard_dir) \o "/" \o name \o ".txt"

\* C5: strict suffix lookup: read_options_for_token("x-mir") reads x-mir.txt or
\* nothing and returns the empty list when x-mir.txt is absent, x.txt present or
\* not; read_options_for_token("x") reads x.txt or nothing; a file named
\* "...-mir.txt" is read for the tokens ending in "-mir" only.
StrictSuffixLookup ==
    pc = "read" =>
        /\ arg = "x-mir" =>
               /\ last.path \in {NoPath, FileUnderRoot("x-mir")}
               /\ FileUnderRoot("x-mir") \notin DOMAIN fs => ret = <<>>
        /\ arg = "x" => last.path \in {NoPath, FileUnderRoot("x")}
        /\ last.path # NoPath =>
               (EndsWith(arg, MirrorSuffix) <=> EndsWith(last.path, "-mir.txt"))

\* "x-mir" was looked up with x.txt on disk and no x-mir.txt, and gave no option
MirrorTokenNotRedirected ==
    /\ pc = "read"
    /\ arg = "x-mir"
    /\ wildcard_dir = WildcardRoot
    /\ "/w/x.txt" \in DOMAIN fs
    /\ "/w/x-mir.txt" \notin DOMAIN fs
    /\ ret = <<>>
    /\ last.path = NoPath

\* C6: cleanup idempotence: the cleanup step applied to its own output returns
\* that output.
CleanupIdempotent ==
    pc = "recleaned" => ret = arg

\* The options at the indices of keep, in order, joined by ", "
RECURSIVE JoinAt(_, _)
JoinAt(options, keep) ==
    IF keep = {} THEN ""
    ELSE LET k == CHOOSE i \in keep : \A j \in keep : i <= j
         IN  IF keep = {k} THEN options[k]
             ELSE options[k] \o ", " \o JoinAt(options, keep \ {k})

\* The text before the last decision, with core in place of its first token
WithFirstToken(core) ==
    LET m == WILDCARD_TOKEN_RE(last.before)
    IN  SubSeq(last.before, 1, m[1] - 1) \o core
            \o SubSeq(last.before, m[2] + 1, Len(last.before))

\* C7: negative-phase substitution: expand_prompt(text, "neg") replaces a token
\* of a non-empty option list by the ", "-joined options, in file order, at the
\* indices other than the chosen one whose trimmed content is not empty.
NegativePhaseSubstitution ==
    (pc \in {"pass2", "pass3"} /\ CallIs("expand_prompt", "neg") /\ last.kind = "wild")
        => s = WithFirstToken(
                   JoinAt(last.options,
                          {k \in DOMAIN last.options :
                               k # last.idx + 1 /\ Strip(last.options[k]) # ""}))

\* A negative expansion dropped the chosen option and an empty one
NegativeSkipsChosenAndEmpty ==
    /\ pc = "pass2"
    /\ CallIs("expand_prompt", "neg")
    /\ last.kind = "wild"
    /\ last.options = <<"a", "", "c">>
    /\ last.idx = 0
    /\ s = "c"

\* C8: a token that resolves to no option is deleted with the text around it
\* unchanged and consumes no decision: the wildcard counter counts the decisions
\* made on tokens with options only; "__missing__" expands to ""; with no
\* wildcard folder set every token is deleted so.
TokenWithoutOptionsDeleted ==
    /\ (pc \in {"pass2", "pass3", "mirror_walk"} /\ last.kind = "drop")
           => s = WithFirstToken("")
    /\ (pc \in {"pass1", "pass2", "pass3", "cleanup"})
           => wild_counter = Len(picks)
    /\ (pc = "idle" /\ call.op = "expand_prompt" /\ call.text = "__missing__")
           => result = ""
    /\ (pc \in {"pass1", "pass2", "pass3", "cleanup"} /\ wildcard_dir = "")
           => picks = <<>> /\ last.kind # "wild"

\* A token whose file has no surviving line was deleted between "x" and "y"
EmptyFileTokenDeleted ==
    /\ pc = "pass2"
    /\ wildcard_dir = WildcardRoot
    /\ text = "x__empty__y"
    /\ last.kind = "drop"
    /\ last.path = "/w/empty.txt"
    /\ s = "xy"
    /\ wild_counter = 0

\* C9: single-option shortcut: a brace block or a resolved token with exactly
\* one option always gets index 0, and "{only}" expands to "only".
SingleOptionShortcut ==
    /\ (last.kind \in {"choice", "wild", "mirror"} /\ Len(last.options) = 1)
           => last.idx = 0
    /\ (pc = "idle" /\ call.op = "expand_prompt" /\ call.text = "{only}")
           => result = "only"

\* "{only}" was expanded to "only"
OnlyExpanded ==
    /\ pc = "idle"
    /\ call.op = "expand_prompt"
    /\ call.text = "{only}"
    /\ last.kind = "choice"
    /\ last.options = <<"only">>
    /\ result = "only"

\* C11: bounded expansion: a brace pass of expand_prompt makes at most 64 rounds
\* and its wildcard pass at most 128; no call ends in an error; the token of a
\* file that names itself and the block left over by both brace passes stay in
\* the output as they are.
ExpansionBounded ==
    /\ pc \in {"pass1", "pass3"} => round <= 64 /\ choice_counter <= 128
    /\ pc = "pass2" => round <= 128 /\ wild_counter <= 128
    /\ pc # "IndexError"
    /\ (pc = "idle" /\ call = [op |-> "expand_prompt", text |-> "__loop__", phase |-> "pos"]
            /\ wildcard_dir = WildcardRoot)
           => result = "__loop__"
    /\ (pc = "idle" /\ call = [op |-> "expand_prompt", text |-> ManyBlocks, phase |-> "pos"])
           => result = (IF wildcard_dir = WildcardRoot THEN "{}solo" ELSE "{}")

\* The wildcard pass used its 128 rounds on "__loop__" and the call returned
\* the token as literal text
LoopLeftLiteral ==
    /\ pc = "idle"
    /\ call = [op |-> "expand_prompt", text |-> "__loop__", phase |-> "pos"]
    /\ wild_counter = 128
    /\ result = "__loop__"

\* The loop of _expand_choices_recursively is over in the current state
BracesOver == ~(round < ChoiceLimit /\ INNER_BRACE_RE(s) # <<0, 0>>)

\* C12: brace replay from a zero baseline: whatever calls the instance served
\* before, collapse_choices(text), called on its own or by the mirror derivation,
\* counts its brace decisions from zero, makes round by round the brace decisions
\* that pass 1 of the first expand_prompt(text, "pos") made (same options, same
\* index, same text before), and returns the text that pass 1 produced.
CollapseReplaysPassOne ==
    /\ (pc \in {"collapse", "mirror_collapse"} /\ posFirst.known) =>
           /\ choice_counter = round
           /\ wild_counter = 0
           /\ round <= Len(posFirst.braces)
           /\ IF round = 0 THEN last = NoDecision
              ELSE round <= Len(posFirst.braces) /\ last = posFirst.braces[round]
           /\ BracesOver => s = posFirst.pass1 /\ round = Len(posFirst.braces)
    /\ (pc = "idle" /\ CallIs("collapse_choices", "") /\ posFirst.known) =>
           /\ result = posFirst.pass1
           /\ choice_counter = Len(posFirst.braces)
           /\ wild_counter = 0

\* collapse_choices("{a|{b|}}") returned what pass 1 of the earlier expansion
\* produced with two decisions, the first one taking the nested block
NestedCollapseReplayed ==
    /\ pc = "idle"
    /\ CallIs("collapse_choices", "")
    /\ text = "{a|{b|}}"
    /\ posFirst.known
    /\ Len(posFirst.braces) = 2
    /\ posFirst.braces[1].options = <<"b", "">>
    /\ posFirst.braces[2].options = <<"a", "b">>
    /\ choice_counter = 2
    /\ result = posFirst.pass1
    /\ result = "b"

\* C13: decision-point step: a round of a brace pass consumes one brace decision:
\* the brace counter goes up by exactly one, the wildcard counter stays, and the
\* index is one of 0 .. optionCount - 1; a round of the wildcard pass on a token
\* with options consumes one wildcard decision: the wildcard counter goes up by
\* exactly one, the brace counter stays, and the index is in range; a round on a
\* token without options moves no counter; no step inside an expand_prompt call
\* lowers a counter.
DecisionPointStep ==
    [][/\ (pc \in BracePasses /\ round' = round + 1) =>
              /\ choice_counter' = choice_counter + 1
              /\ wild_counter' = wild_counter
              /\ last'.kind = "choice"
              /\ last'.options = _split_choices_keep_empty(
                     SubSeq(s, INNER_BRACE_RE(s)[1] + 1, INNER_BRACE_RE(s)[2] - 1))
              /\ last'.idx \in 0..(Len(last'.options) - 1)
       /\ (pc = "pass2" /\ round' = round + 1) =>
              LET token == TokenOf(s, WILDCARD_TOKEN_RE(s)[1], WILDCARD_TOKEN_RE(s)[2])
                  n     == Len(read_options_for_token(token))
              IN  /\ choice_counter' = choice_counter
                  /\ wild_counter' = IF n > 0 THEN wild_counter + 1 ELSE wild_counter
                  /\ n > 0 => /\ last'.kind = "wild"
                              /\ last'.idx \in 0..(n - 1)
       /\ (call.op = "expand_prompt" /\ pc # "idle") =>
              /\ choice_counter' >= choice_counter
              /\ wild_counter' >= wild_counter
      ]_vars

\* expand_prompt("{a|b} __nest__") has consumed one brace decision and then two
\* wildcard decisions, the second taking index 1 of the two options of hair.txt
BothCountersAdvanced ==
    /\ pc = "pass2"
    /\ call.op = "expand_prompt"
    /\ text = "{a|b} __nest__"
    /\ last.kind = "wild"
    /\ last.options = <<"short", "long">>
    /\ last.idx = 1
    /\ choice_counter = 1
    /\ wild_counter = 2

\* The pass-1 brace decisions of the running expand_prompt(text, ...) are on
\* record: pass 1 does not depend on the phase
PassOneKnown == call.op = "expand_prompt" /\ call.text = text /\ (posFirst.known \/ FirstRuns)

\* Pass 3 numbers its brace decisions on from pass 1: in pass 2 and pass 3 the
\* brace counter is the number of pass-1 decisions plus the rounds of pass 3
PassThreeNumbering ==
    /\ (pc = "pass2" /\ PassOneKnown) => choice_counter = Len(posFirst.braces)
    /\ (pc = "pass3" /\ PassOneKnown) => choice_counter = Len(posFirst.braces) + round
    /\ (pc = "pass3" /\ call.op = "expand_prompt" /\ round >= 1) =>
           /\ last.kind = "choice"
           /\ Len(last.options) > 1 =>
                  HashedText(seed, "choice#" \o IntToStr(choice_counter - 1) \o _salt_extra)
                      \in DOMAIN md5

\* C14 as stated: pass ordering: expand_prompt resolves (or deletes) no token
\* while the text holds a collapsible brace block, unless pass 1 used all its 64
\* rounds; pass 3 continues the numbering of pass 1.
NoTokenResolvedBesideBlock ==
    /\ (pc = "pass2" /\ call.op = "expand_prompt" /\ last.kind \in {"wild", "drop"}) =>
           (INNER_BRACE_RE(last.before) = <<0, 0>> \/ choice_counter = 64)
    /\ PassThreeNumbering

\* C14 amended: the wildcard pass begins on a text without a collapsible brace
\* block unless pass 1 used all its 64 rounds, so the first token is resolved
\* with none in the text (later tokens may stand beside blocks that wildcard
\* options brought in); no brace decision is made during the wildcard pass;
\* pass 3 continues the numbering of pass 1.
BracesSettledBeforeWildcards ==
    /\ (pc = "pass2" /\ round = 0) =>
           (INNER_BRACE_RE(s) = <<0, 0>> \/ choice_counter = 64)
    /\ (pc = "pass2" /\ round = 1) =>
           /\ last.kind \in {"wild", "drop"}
           /\ (INNER_BRACE_RE(last.before) = <<0, 0>> \/ choice_counter = 64)
    /\ (pc = "pass2" /\ round >= 1 /\ INNER_BRACE_RE(last.before) # <<0, 0>>
            /\ choice_counter < 64) =>
           (round >= 2 /\ wildcard_dir # "")
    /\ PassThreeNumbering

\* In expand_prompt("{a|b} __nest__") pass 1 made the decision choice#0, the
\* wildcard pass brought in "{p|q}", and pass 3 decided it as choice#1
PassThreeContinuesPassOne ==
    /\ pc = "pass3"
    /\ call.op = "expand_prompt"
    /\ text = "{a|b} __nest__"
    /\ round = 1
    /\ Len(posFirst.braces) = 1
    /\ last.kind = "choice"
    /\ last.options = <<"p", "q">>
    /\ choice_counter = 2
    /\ HashedText(seed, "choice#1" \o _salt_extra) \in DOMAIN md5

\* C15: literal text does not perturb picks: expand_prompt on a prompt that
\* holds the same brace blocks and tokens as text, with other literal text
\* around them, consumes in the same phase the decisions expand_prompt(text)
\* consumed: the same kinds and tokens in the same order, each with the same
\* number of options and the same index.
LiteralTextKeepsPicks ==
    (call = [op |-> "expand_prompt", text |-> arg, phase |-> ret.phase] /\ ret.known) =>
        /\ Len(trace) <= Len(ret.trace)
        /\ trace = SubSeq(ret.trace, 1, Len(trace))
        /\ pc = "idle" => trace = ret.trace

\* expand_prompt("x{a|b}, __nest__y", "pos") returned after the four decisions
\* of expand_prompt("{a|b} __nest__", "pos"), two of them brace decisions
\* between two options
FourDecisionsRepeated ==
    /\ pc = "idle"
    /\ text = "{a|b} __nest__"
    /\ arg = "x{a|b}, __nest__y"
    /\ call = [op |-> "expand_prompt", text |-> arg, phase |-> "pos"]
    /\ ret.known
    /\ ret.phase = "pos"
    /\ Len(trace) = 4
    /\ trace[1].kind = "choice" /\ trace[1].n = 2
    /\ trace[4].kind = "choice" /\ trace[4].n = 2 /\ trace[4].idx = 1
    /\ trace = ret.trace

\* C16: path confinement: whatever the token and the files on disk, a file
\* read_options_for_token opens is an existing file whose normalized path lies
\* under the normalized wildcard folder and has no ".." segment; options come
\* from an opened file only; with no wildcard folder set no file is opened.
PathConfined ==
    pc = "read" =>
        /\ wildcard_dir = "" => (last.path = NoPath /\ ret = <<>>)
        /\ last.path # NoPath =>
               /\ wildcard_dir # ""
               /\ StartsWith(last.path, NormPath(wildcard_dir) \o "/")
               /\ \A k \in 1..Len(Split(last.path, "/")) : Split(last.path, "/")[k] # ".."
               /\ last.path \in DOMAIN fs
        /\ ret # <<>> => last.path # NoPath

\* "a/../../w2/x" names a file beside the wildcard folder whose path begins
\* like the folder's; the file exists and was not opened
FileBesideRootNotOpened ==
    /\ pc = "read"
    /\ arg = "a/../../w2/x"
    /\ wildcard_dir = "/w/sub/.."
    /\ "/w2/x.txt" \in DOMAIN fs
    /\ CandidatePath(arg) = "/w2/x.txt"
    /\ last.path = NoPath
    /\ ret = <<>>

\* str is one brace block from its first character to its last
SpanningBlock(str) ==
    /\ Len(str) >= 2
    /\ Ch(str, 1) = "{"
    /\ MatchingClose(str, 1, 0) = Len(str)

\* The single line of x.txt
TheLine == fs["/w/x.txt"][1]

\* C17: top-level splitting keeps nesting intact: for the token "x" of a file
\* whose single line holds "{" and "}", every option read_options_for_token
\* returns is the whole line or a top-level alternate of the one block that
\* spans the line; if the line's braces are balanced, so are those of every
\* option.
TopLevelSplitKeepsNesting ==
    (pc = "read" /\ Contains(TheLine, "{") /\ Contains(TheLine, "}")) =>
        \A k \in 1..Len(ret) :
            /\ \/ ret[k] = TheLine
               \/ /\ SpanningBlock(TheLine)
                  /\ ret = _split_top_level_alts(SubSeq(TheLine, 2, Len(TheLine) - 1))
            /\ Balanced(TheLine) => Balanced(ret[k])

\* The texts _expand_choices_recursively can return for str with this many
\* rounds left, over every index _pick_choice_index can yield at each block
RECURSIVE CollapseOutcomes(_, _)
CollapseOutcomes(str, rounds) ==
    LET m == INNER_BRACE_RE(str)
    IN  IF rounds = 0 \/ m = <<0, 0>> THEN {str}
        ELSE LET options == _split_choices_keep_empty(SubSeq(str, m[1] + 1, m[2] - 1))
             IN  UNION {CollapseOutcomes(Substitute(str, m[1], m[2], options[k]), rounds - 1) :
                            k \in 1..Len(options)}

\* C18: flattening agrees with collapsing: the leaves _flatten_brace_expr
\* returns for a balanced expression are, as a set, the trimmed texts the
\* brace-collapsing pass can produce from it over all choices of index, and the
\* trimmed text collapse_choices returns for it is one of the leaves.
FlattenAgreesWithCollapse ==
    (ret # <<>> /\ Balanced(arg)) =>
        /\ {ret[k] : k \in 1..Len(ret)}
               = {Strip(x) : x \in CollapseOutcomes(arg, ChoiceLimit)}
        /\ (pc = "idle" /\ call.op = "collapse_choices") =>
               \E k \in 1..Len(ret) : ret[k] = Strip(result)

====
